---- MODULE Spec2Model ----
(***************************************************************************)
(* Model of the spill-formula tools of excel-mcp-server-spill:             *)
(* create_workbook, write_data_to_excel and apply_spill_formula            *)
(* (tests/test_spill_formula.py), and the openpyxl calls they make.        *)
(*                                                                         *)
(* A text (cell reference, formula, message) is a sequence of tokens; a    *)
(* cell reference is a sequence of one-character tokens, so that parsing   *)
(* it is something the model computes.  The file on disk is `stored`; a    *)
(* handler loads it, changes the loaded workbook and saves it.             *)
(***************************************************************************)
EXTENDS Integers, Sequences, FiniteSets, TLC

VARIABLES
    stored,   \* the workbook file at get_excel_path(filepath)
    pre,      \* the file as it was when the last call started
    call,     \* the arguments of the last call
    result,   \* what the last call gave its caller
    hist,     \* the successful calls so far, oldest first
    ncalls,   \* the number of calls made so far
    writer    \* the prefix form the installed library writes functions
              \* with, unknown until its first save

vars == <<stored, pre, call, result, hist, ncalls, writer>>

----------------------------------------------------------------------------
(* Bounds *)

\* longest cell reference text of the single-call specification
MaxRefLen == 2
\* number of calls in a run of the sequence specification
MaxCalls == 2

----------------------------------------------------------------------------
(* Texts *)

Digits == {"0", "1", "2", "3", "4", "5", "6", "7", "8", "9"}

Letters == <<"A", "B", "C", "D", "E", "F", "G", "H", "I", "J", "K", "L", "M",
             "N", "O", "P", "Q", "R", "S", "T", "U", "V", "W", "X", "Y", "Z">>

UpperLetters == {Letters[i] : i \in DOMAIN Letters}

DigitValue(c) ==
    CASE c = "0" -> 0 [] c = "1" -> 1 [] c = "2" -> 2 [] c = "3" -> 3
      [] c = "4" -> 4 [] c = "5" -> 5 [] c = "6" -> 6 [] c = "7" -> 7
      [] c = "8" -> 8 [] c = "9" -> 9

LetterValue(c) == CHOOSE i \in DOMAIN Letters : Letters[i] = c

\* int(row) of a text of decimal digits
RECURSIVE IntOfDigits(_)
IntOfDigits(s) ==
    IF s = <<>> THEN 0
    ELSE 10 * IntOfDigits(SubSeq(s, 1, Len(s) - 1)) + DigitValue(s[Len(s)])

\* the column number of a column string: A = 1, ..., Z = 26, AA = 27, ...
RECURSIVE ColumnNumber(_)
ColumnNumber(s) ==
    IF s = <<>> THEN 0
    ELSE 26 * ColumnNumber(SubSeq(s, 1, Len(s) - 1)) + LetterValue(s[Len(s)])

\* the keys of openpyxl's column cache: one to three upper-case letters
IsColumnString(s) ==
    /\ Len(s) \in 1..3
    /\ \A i \in 1..Len(s) : s[i] \in UpperLetters

IsDigits(s) == Len(s) >= 1 /\ \A i \in 1..Len(s) : s[i] \in Digits

----------------------------------------------------------------------------
(* The library: openpyxl.utils.coordinate_to_tuple.                        *)
(* The text is cut at its first digit (a text without a digit is cut       *)
(* before its last character; the empty text leaves the cut unbound); the  *)
(* tail goes through int(), the head through the column cache.  Row 0 is   *)
(* not rejected here.                                                      *)

NoTuple(exc) == [exc |-> exc, row |-> 0, col |-> 0]

coordinate_to_tuple(coordinate) ==
    IF coordinate = <<>> THEN NoTuple("UnboundLocalError")
    ELSE
      LET n == Len(coordinate)
          ds == {i \in 1..n : coordinate[i] \in Digits}
          cut == IF ds = {} THEN n ELSE CHOOSE i \in ds : \A j \in ds : i <= j
          colText == SubSeq(coordinate, 1, cut - 1)
          rowText == SubSeq(coordinate, cut, n)
      IN  IF ~IsDigits(rowText) THEN NoTuple("ValueError")
          ELSE IF ~IsColumnString(colText) THEN NoTuple("KeyError")
          ELSE [exc |-> "none", row |-> IntOfDigits(rowText),
                col |-> ColumnNumber(colText)]

----------------------------------------------------------------------------
(* The library: workbooks, sheets and cells.                               *)
(* A workbook maps sheet names to sheets; a sheet maps <<row, column>> to  *)
(* a cell [t, text, ref]: t = "v" for a plain value, t = "f" for a formula *)
(* text set through cell.value, t = "array" for a cell marked by           *)
(* set_dynamic_array_formula, whose ref is the extent it was given.        *)

NoCells == [k \in {} |-> 0]

Put(m, k, v) == [x \in DOMAIN m \cup {k} |-> IF x = k THEN v ELSE m[x]]

\* Workbook(): one sheet, named "Sheet", without cells
Workbook == Put(NoCells, "Sheet", NoCells)

\* the file states: a workbook on disk, no file, a file cut short by a failed save
WorkbookFile(wb) == [state |-> "workbook", sheets |-> wb]
NoFile == [state |-> "absent", sheets |-> NoCells]
TruncatedFile == [state |-> "truncated", sheets |-> NoCells]

\* a slip: a new workbook is made where the file should be loaded
load_new_workbook(file) == Workbook

\* openpyxl.load_workbook raises on a missing or unreadable file
load_raises(file) == file.state # "workbook"
load_workbook(file) == file.sheets

sheetnames(wb) == DOMAIN wb

\* ws[coordinate] and ws.cell(row, column): rows and columns start at 1
cell_raises(row, col) == row < 1 \/ col < 1

EmptyCell == [t |-> "v", text |-> <<>>, ref |-> <<>>]

GetCell(wb, sheet_name, key) ==
    IF key \in DOMAIN wb[sheet_name] THEN wb[sheet_name][key] ELSE EmptyCell

PutCell(wb, sheet_name, key, c) ==
    [wb EXCEPT ![sheet_name] = Put(wb[sheet_name], key, c)]

\* cell.value = value: a text that starts with "=" is kept as a formula
StartsWithEq(text) == Len(text) >= 1 /\ Head(text) = "="

SetValue(c, value) ==
    [t |-> IF StartsWithEq(value) THEN "f" ELSE "v", text |-> value, ref |-> <<>>]

\* cell.set_dynamic_array_formula(range_str): the cell becomes an array
\* formula over range_str; only this cell is touched
SetDynamicArrayFormula(c, range_str) ==
    [t |-> "array", text |-> c.text, ref |-> range_str]

\* The writer may spell a function of an array formula with the _xlfn. or
\* _xlfn._xlws. prefix (the tests strip both before comparing).
FunctionNames == {"UNIQUE", "SORT", "FILTER", "SEQUENCE"}
PrefixTokens == {"_xlfn.", "_xlws."}
PrefixForms == {<<>>, <<"_xlfn.">>, <<"_xlfn.", "_xlws.">>}

\* the writer's form before the library has written anything
UnknownForm == <<"?">>

\* the forms a handler's save can use: the library's one form, any of them
\* while it has not shown which
SaveForms(body, known) ==
    IF body.save /\ body.kind = "return" /\ known = UnknownForm
    THEN PrefixForms ELSE {known}

RECURSIVE StripPrefixes(_)
StripPrefixes(text) ==
    IF text = <<>> THEN <<>>
    ELSE IF Head(text) \in PrefixTokens THEN StripPrefixes(Tail(text))
    ELSE <<Head(text)>> \o StripPrefixes(Tail(text))

RECURSIVE AddPrefixes(_, _)
AddPrefixes(text, form) ==
    IF text = <<>> THEN <<>>
    ELSE IF Head(text) \in FunctionNames
         THEN form \o <<Head(text)>> \o AddPrefixes(Tail(text), form)
    ELSE <<Head(text)>> \o AddPrefixes(Tail(text), form)

WriteCell(c, form) ==
    IF c.t = "array"
    THEN [c EXCEPT !.text = AddPrefixes(StripPrefixes(c.text), form)]
    ELSE c

\* wb.save(path) when it completes: every cell of every sheet is written
SaveWorkbook(wb, form) ==
    WorkbookFile([n \in DOMAIN wb |->
                    [k \in DOMAIN wb[n] |-> WriteCell(wb[n][k], form)]])

\* How the library calls of one handler run: what set_dynamic_array_formula
\* and save raise ("none": they complete) and the state a failed save leaves
\* the file in.
LibRuns ==
    {[mark |-> m, save |-> "none", left |-> "intact"] :
        m \in {"none", "AttributeError", "TypeError"}}
    \cup {[mark |-> "none", save |-> "OSError", left |-> l] :
            l \in {"intact", "truncated"}}

----------------------------------------------------------------------------
(* What a handler gives its caller: a returned text, or an exception that  *)
(* leaves the handler.                                                     *)

Returned(text) == [kind |-> "returned", text |-> text]
Raised(exc) == [kind |-> "raised", text |-> <<exc>>]

\* the exception classes of the model; each derives from Exception
ExceptionClasses ==
    {"ValueError", "KeyError", "UnboundLocalError", "AttributeError",
     "TypeError", "OSError"}

\* a slip: the outer handler written as except ValueError
CaughtOnlyValueError(exc) == exc = "ValueError"

\* except Exception as e
CaughtByExceptException(exc) == exc \in ExceptionClasses

\* how control leaves the body of a handler's try block: kind is "return"
\* (text is the value) or "raise" (exc is the exception); wb is the loaded
\* workbook as the body left it; save tells whether wb.save was reached
BodyReturn(text, wb) ==
    [kind |-> "return", text |-> text, exc |-> "none", wb |-> wb, save |-> FALSE]
BodyRaise(exc, wb) ==
    [kind |-> "raise", text |-> <<>>, exc |-> exc, wb |-> wb, save |-> FALSE]
BodySaved(text, wb) ==
    [kind |-> "return", text |-> text, exc |-> "none", wb |-> wb, save |-> TRUE]
BodySaveRaise(exc, wb) ==
    [kind |-> "raise", text |-> <<>>, exc |-> exc, wb |-> wb, save |-> TRUE]

\* a slip: the workbook saved as soon as it was changed, before the
\* marking step
FileAfterSaveEarly(file, body, lib, form) ==
    IF body.wb = NoCells THEN file
    ELSE IF body.save /\ body.kind = "raise"
         THEN IF lib.left = "truncated" THEN TruncatedFile ELSE file
    ELSE SaveWorkbook(body.wb, form)

\* The file after a handler: written only when wb.save was reached.  A save
\* that raises leaves the file as it was or cut short (lib.left).
FileAfter(file, body, lib, form) ==
    IF ~body.save THEN file
    ELSE IF body.kind = "return" THEN SaveWorkbook(body.wb, form)
    ELSE IF lib.left = "truncated" THEN TruncatedFile
    ELSE file

----------------------------------------------------------------------------
(* apply_spill_formula *)

SheetNotFoundMessage(sheet_name) ==
    <<"Error", ": Sheet '", sheet_name, "' not found">>

InvalidRangeMessage ==
    <<"Error", ": Invalid range specification: start_cell must be before end_cell">>

InvalidReferenceMessage == <<"Error", ": Invalid cell reference">>

LibraryMissingMessage ==
    <<"Error", ": This feature requires openpyxl-spill library.",
      " Please ensure it's properly installed.">>

ErrorApplyingMessage(exc) == <<"Error", " applying spill formula: ", exc>>

\* range_str = f"{start_cell}:{end_cell}"
RangeStr(start_cell, end_cell) == start_cell \o <<":">> \o end_cell

\* a slip: the confirmation quotes the formula as the writer spells it
AppliedMessageRewritten(formula, start_cell, end_cell) ==
    <<"Applied dynamic array formula '">> \o AddPrefixes(formula, <<"_xlfn.">>)
        \o <<"' to range ">> \o RangeStr(start_cell, end_cell)

AppliedMessage(formula, start_cell, end_cell) ==
    <<"Applied dynamic array formula '">> \o formula \o <<"' to range ">>
        \o RangeStr(start_cell, end_cell)

\* a slip: "and" where "or" is meant
RangeReversedOnBothAxes(s, e) == s.row > e.row /\ s.col > e.col

\* if start_row > end_row or start_col > end_col
RangeReversed(s, e) == s.row > e.row \/ s.col > e.col

\* The inner try: both references parsed, then the order test.  ValueError
\* is caught here; any other exception goes on to the outer handler.
\* "ok", or how the step ends the body.
ValidateReferences(start_cell, end_cell, wb) ==
    LET s == coordinate_to_tuple(start_cell)
        e == coordinate_to_tuple(end_cell)
        exc == IF s.exc # "none" THEN s.exc ELSE e.exc
    IN  IF exc = "ValueError" THEN BodyReturn(InvalidReferenceMessage, wb)
        ELSE IF exc # "none" THEN BodyRaise(exc, wb)
        ELSE IF RangeReversed(s, e) THEN BodyReturn(InvalidRangeMessage, wb)
        ELSE BodyReturn(<<"ok">>, wb)

\* cell = sheet[start_cell]; cell.value = formula;
\* cell.set_dynamic_array_formula(range_str); wb.save; the confirmation
WriteAnchor(wb, sheet_name, start_cell, end_cell, formula, lib) ==
    LET s == coordinate_to_tuple(start_cell)
        key == <<s.row, s.col>>
    IN  IF cell_raises(s.row, s.col) THEN BodyRaise("ValueError", wb)
        ELSE
          LET valued == SetValue(GetCell(wb, sheet_name, key), formula)
              wb1 == PutCell(wb, sheet_name, key, valued)
              marked == SetDynamicArrayFormula(valued, RangeStr(start_cell, end_cell))
              wb2 == PutCell(wb, sheet_name, key, marked)
          IN  IF lib.mark = "AttributeError"
              THEN BodyReturn(LibraryMissingMessage, wb1)
              ELSE IF lib.mark # "none" THEN BodyRaise(lib.mark, wb1)
              ELSE IF lib.save # "none" THEN BodySaveRaise(lib.save, wb2)
              ELSE BodySaved(AppliedMessage(formula, start_cell, end_cell), wb2)

\* a slip: the references validated before the sheet is looked up
ApplyBodyReferencesFirst(file, sheet_name, start_cell, end_cell, formula, lib) ==
    IF load_raises(file) THEN BodyRaise("OSError", NoCells)
    ELSE
      LET wb == load_workbook(file)
          v == ValidateReferences(start_cell, end_cell, wb)
      IN  IF ~(v.kind = "return" /\ v.text = <<"ok">>) THEN v
          ELSE IF sheet_name \notin sheetnames(wb)
               THEN BodyReturn(SheetNotFoundMessage(sheet_name), wb)
          ELSE WriteAnchor(wb, sheet_name, start_cell, end_cell, formula, lib)

\* the body of the try block of apply_spill_formula
ApplyBody(file, sheet_name, start_cell, end_cell, formula, lib) ==
    IF load_raises(file) THEN BodyRaise("OSError", NoCells)
    ELSE
      LET wb == load_workbook(file)
      IN  IF sheet_name \notin sheetnames(wb)
          THEN BodyReturn(SheetNotFoundMessage(sheet_name), wb)
          ELSE
            LET v == ValidateReferences(start_cell, end_cell, wb)
            IN  IF v.kind = "return" /\ v.text = <<"ok">>
                THEN WriteAnchor(wb, sheet_name, start_cell, end_cell, formula, lib)
                ELSE v

\* the value apply_spill_formula gives its caller
ApplyResult(body) ==
    IF body.kind = "return" THEN Returned(body.text)
    ELSE IF CaughtByExceptException(body.exc)
         THEN Returned(ErrorApplyingMessage(body.exc))
    ELSE Raised(body.exc)

----------------------------------------------------------------------------
(* write_data_to_excel *)

DataWrittenMessage == <<"Data written successfully">>

ErrorWritingMessage(exc) == <<"Error", " writing data: ", exc>>

\* the cells data covers from <<row, col>>: one per value, row by row
DataCells(row, col, data) ==
    UNION {{<<row + i - 1, col + j - 1>> : j \in 1..Len(data[i])} :
             i \in 1..Len(data)}

\* sheet.cell(row=start_row + row_idx, column=start_col + col_idx, value=value)
\* for every value of data
WriteCells(sheet, row, col, data) ==
    LET cells == DataCells(row, col, data)
    IN  [k \in DOMAIN sheet \cup cells |->
            IF k \in cells
            THEN SetValue(EmptyCell, <<data[k[1] - row + 1][k[2] - col + 1]>>)
            ELSE sheet[k]]

\* the body of the try block of write_data_to_excel
WriteBody(file, sheet_name, start_cell, data, lib) ==
    IF load_raises(file) THEN BodyRaise("OSError", NoCells)
    ELSE
      LET wb0 == load_workbook(file)
          wb == IF sheet_name \notin sheetnames(wb0)
                THEN Put(wb0, sheet_name, NoCells) ELSE wb0
          s == coordinate_to_tuple(start_cell)
      IN  IF s.exc # "none" THEN BodyRaise(s.exc, wb)
          ELSE IF DataCells(s.row, s.col, data) # {} /\ cell_raises(s.row, s.col)
               THEN BodyRaise("ValueError", wb)
          ELSE
            LET wb1 == [wb EXCEPT ![sheet_name] =
                            WriteCells(wb[sheet_name], s.row, s.col, data)]
            IN  IF lib.save # "none" THEN BodySaveRaise(lib.save, wb1)
                ELSE BodySaved(DataWrittenMessage, wb1)

\* the value write_data_to_excel gives its caller
WriteResult(body) ==
    IF body.kind = "return" THEN Returned(body.text)
    ELSE IF CaughtByExceptException(body.exc)
         THEN Returned(ErrorWritingMessage(body.exc))
    ELSE Raised(body.exc)

----------------------------------------------------------------------------
(* Inputs *)

\* the library calls all complete
CalmLib == [mark |-> "none", save |-> "none", left |-> "intact"]

SheetNames == {"Sheet", "InvalidSheet"}

\* formula texts, token by token: a dynamic-array formula, a text without
\* the leading "=", and the empty text
Formulas == {<<"=", "UNIQUE", "(A1:A10)">>, <<"UNIQUE", "(A1:A10)">>, <<>>}

\* the characters of the reference texts of the single-call specification
RefChars == {"A", "B", "a", "0", "1", "2"}

AllRefs == UNION {[1..n -> RefChars] : n \in 0..MaxRefLen}

\* the references of the sequence specification: three cells, and row 0
\* as a start of a write
GridRefs == {<<"A", "1">>, <<"A", "2">>, <<"B", "1">>}

GridWriteRefs == GridRefs \cup {<<"A", "0">>}

GridFormulas == {<<"=", "UNIQUE", "(A1:A10)">>, <<"=", "SORT", "(B2:B8,,-1)">>}

\* the library runs of the sequence specification: all steps complete, or
\* the library lacks set_dynamic_array_formula
GridLibRuns == {l \in LibRuns : l.save = "none" /\ l.mark # "TypeError"}

\* for a write: all steps complete, or save fails and leaves the file
GridWriteLibRuns == {l \in LibRuns : l.mark = "none" /\ l.left = "intact"}

\* data of a write: one row of two values
DataSets == {<<<<"1500", "South">>>>}

----------------------------------------------------------------------------
(* Actions *)

NoCall ==
    [op |-> "none", sheet |-> "", start |-> <<>>, end |-> <<>>,
     formula |-> <<>>, data |-> <<>>, lib |-> CalmLib]

\* one call of apply_spill_formula on the file
Apply(sheet_name, start_cell, end_cell, formula, lib) ==
    LET body == ApplyBody(stored, sheet_name, start_cell, end_cell, formula, lib)
        c == [op |-> "apply", sheet |-> sheet_name, start |-> start_cell,
              end |-> end_cell, formula |-> formula, data |-> <<>>, lib |-> lib]
    IN  /\ \E form \in SaveForms(body, writer) :
              /\ stored' = FileAfter(stored, body, lib, form)
              /\ writer' = form
        /\ pre' = stored
        /\ call' = c
        /\ result' = ApplyResult(body)
        /\ hist' = IF body.kind = "return" /\ body.save
                   THEN Append(hist, c) ELSE hist
        /\ ncalls' = ncalls + 1

\* one call of write_data_to_excel on the file
Write(sheet_name, start_cell, data, lib) ==
    LET body == WriteBody(stored, sheet_name, start_cell, data, lib)
        c == [op |-> "write", sheet |-> sheet_name, start |-> start_cell,
              end |-> <<>>, formula |-> <<>>, data |-> data, lib |-> lib]
    IN  /\ \E form \in SaveForms(body, writer) :
              /\ stored' = FileAfter(stored, body, lib, form)
              /\ writer' = form
        /\ pre' = stored
        /\ call' = c
        /\ result' = WriteResult(body)
        /\ hist' = IF body.kind = "return" /\ body.save
                   THEN Append(hist, c) ELSE hist
        /\ ncalls' = ncalls + 1

\* The library's steps run only in a call that reaches them: the runs to
\* choose from are runs when the call gets as far as the library, and the
\* one run in which nothing fails when it does not.
ApplyLibRuns(runs, sheet_name, start_cell, end_cell, formula) ==
    IF ApplyBody(stored, sheet_name, start_cell, end_cell, formula, CalmLib).save
    THEN runs ELSE {CalmLib}

WriteLibRuns(runs, sheet_name, start_cell, data) ==
    IF WriteBody(stored, sheet_name, start_cell, data, CalmLib).save
    THEN runs ELSE {CalmLib}

\* a single call with any reference texts
ApplyAny ==
    /\ ncalls = 0
    /\ \E sheet_name \in SheetNames, start_cell \in AllRefs, end_cell \in AllRefs,
          formula \in Formulas :
          \E lib \in ApplyLibRuns(LibRuns, sheet_name, start_cell, end_cell, formula) :
              Apply(sheet_name, start_cell, end_cell, formula, lib)

\* a call of a run of calls on one file
ApplyOnGrid ==
    /\ ncalls < MaxCalls
    /\ \E sheet_name \in {"Sheet"}, start_cell \in GridRefs, end_cell \in GridRefs,
          formula \in GridFormulas :
          \E lib \in ApplyLibRuns(GridLibRuns, sheet_name, start_cell, end_cell, formula) :
              Apply(sheet_name, start_cell, end_cell, formula, lib)

WriteOnGrid ==
    /\ ncalls < MaxCalls
    /\ \E sheet_name \in SheetNames, start_cell \in GridWriteRefs, data \in DataSets :
          \E lib \in WriteLibRuns(GridWriteLibRuns, sheet_name, start_cell, data) :
              Write(sheet_name, start_cell, data, lib)

----------------------------------------------------------------------------
(* Specifications *)

\* create_workbook: Workbook() saved to the path
create_workbook == WorkbookFile(Workbook)

Fresh(file) ==
    /\ stored = file
    /\ pre = file
    /\ call = NoCall
    /\ result = Returned(<<>>)
    /\ hist = <<>>
    /\ ncalls = 0
    /\ writer = UnknownForm

\* a run of calls on a newly created workbook
Init == Fresh(create_workbook)

Next == ApplyOnGrid \/ WriteOnGrid

Spec == Init /\ [][Next]_vars

\* one call, with any reference texts, on a created workbook or a missing file
InitCall == Fresh(create_workbook) \/ Fresh(NoFile)

NextCall == ApplyAny

SpecCall == InitCall /\ [][NextCall]_vars

----------------------------------------------------------------------------
(* Vocabulary of the claims *)

\* the reference grammar: upper-case letters, then digits, row at least 1
LetterCount(r) == Cardinality({i \in 1..Len(r) : r[i] \in UpperLetters})
RefColText(r) == SubSeq(r, 1, LetterCount(r))
RefRowText(r) == SubSeq(r, LetterCount(r) + 1, Len(r))
RefRow(r) == IntOfDigits(RefRowText(r))
RefCol(r) == ColumnNumber(RefColText(r))

WellFormed(r) ==
    /\ LetterCount(r) >= 1
    /\ \A i \in 1..LetterCount(r) : r[i] \in UpperLetters
    /\ IsDigits(RefRowText(r))
    /\ RefRow(r) >= 1

\* the grammar of the specification folds case before matching
LowerLetters == <<"a", "b", "c", "d", "e", "f", "g", "h", "i", "j", "k", "l", "m",
                  "n", "o", "p", "q", "r", "s", "t", "u", "v", "w", "x", "y", "z">>

UpperOf(ch) ==
    IF \E i \in DOMAIN LowerLetters : LowerLetters[i] = ch
    THEN Letters[CHOOSE i \in DOMAIN LowerLetters : LowerLetters[i] = ch]
    ELSE ch

MatchesGrammar(r) == WellFormed([i \in 1..Len(r) |-> UpperOf(r[i])])

StartBeforeEnd(s, e) == RefRow(s) <= RefRow(e) /\ RefCol(s) <= RefCol(e)

RangeCells(s, e) ==
    {<<r, c>> : r \in RefRow(s)..RefRow(e), c \in RefCol(s)..RefCol(e)}

IsApply == call.op = "apply"

\* the sheet named by the call was in the workbook when the call started
SheetExisted == pre.state = "workbook" /\ call.sheet \in DOMAIN pre.sheets

ConfirmationText ==
    <<"Applied dynamic array formula '">> \o call.formula \o <<"' to range ">>
        \o call.start \o <<":">> \o call.end

Succeeded == result = Returned(ConfirmationText)

IsError == result.kind = "returned" /\ Len(result.text) >= 1 /\ Head(result.text) = "Error"

ValidRangeCall ==
    /\ IsApply /\ SheetExisted
    /\ WellFormed(call.start) /\ WellFormed(call.end)
    /\ StartBeforeEnd(call.start, call.end)

\* the cell at key of a sheet of the stored workbook; EmptyCell when absent
StoredCell(file, sheet_name, key) ==
    IF file.state = "workbook" /\ sheet_name \in DOMAIN file.sheets
    THEN GetCell(file.sheets, sheet_name, key)
    ELSE EmptyCell

AnchorKey(c) == <<RefRow(c.start), RefCol(c.start)>>

----------------------------------------------------------------------------
(* C1 *)

----------------------------------------------------------------------------
(* C2 *)

InvalidRangeText ==
    <<"Error", ": Invalid range specification: start_cell must be before end_cell">>

----------------------------------------------------------------------------
(* C3 *)

\* C3: when the named sheet is not in the workbook the call returns
\* "Error: Sheet '<name>' not found", whatever the references and the formula
\* are: the sheet is checked before them.
Thm_C3_SheetNotFound ==
    (IsApply /\ pre.state = "workbook" /\ call.sheet \notin DOMAIN pre.sheets) =>
        result = Returned(<<"Error", ": Sheet '", call.sheet, "' not found">>)

Wit_C3_SheetNotFound ==
    /\ IsApply /\ pre.state = "workbook" /\ call.sheet \notin DOMAIN pre.sheets
    /\ ~WellFormed(call.start)
    /\ ~StartsWithEq(call.formula)
    /\ result = Returned(<<"Error", ": Sheet '", call.sheet, "' not found">>)

----------------------------------------------------------------------------
(* C4 *)

InvalidReferenceText == <<"Error", ": Invalid cell reference">>

\* C4: on an existing sheet, a start or end reference that does not match
\* the grammar, has row 0 or is empty makes the call return
\* "Error: Invalid cell reference" and nothing else.
Cx_C4_InvalidReference ==
    (IsApply /\ SheetExisted
        /\ (~MatchesGrammar(call.start) \/ ~MatchesGrammar(call.end)))
        => result = Returned(InvalidReferenceText)

----------------------------------------------------------------------------
(* C5 *)

\* C5: no exception leaves apply_spill_formula: whatever the file, the sheet
\* name, the references, the formula and the library's failures, the call
\* returns the confirmation or a text that begins with "Error".
Thm_C5_NeverRaises ==
    IsApply => /\ result.kind = "returned"
               /\ Succeeded \/ IsError

Wit_C5_NeverRaises ==
    /\ IsApply
    /\ coordinate_to_tuple(call.start).exc = "KeyError"
    /\ SheetExisted
    /\ IsError

----------------------------------------------------------------------------
(* C6 *)

\* no cell of the file holds a formula text that lacks its range tag
NoUntaggedFormula(file) ==
    \A n \in DOMAIN file.sheets : \A k \in DOMAIN file.sheets[n] :
        file.sheets[n][k].t # "f"

\* C6: a call that returns an error without a failed save (missing sheet,
\* invalid reference, invalid range, a failure of the marking step after the
\* anchor's value was set in memory) leaves the stored file as it was, and
\* the stored file never shows an anchor formula without its range tag.
Thm_C6_ErrorLeavesFile ==
    /\ (IsApply /\ IsError /\ call.lib.save = "none") => stored = pre
    /\ NoUntaggedFormula(stored)

Wit_C6_ErrorLeavesFile ==
    /\ ValidRangeCall
    /\ StartsWithEq(call.formula)
    /\ call.lib.mark = "AttributeError"
    /\ IsError
    /\ stored = pre

----------------------------------------------------------------------------
(* C7 *)

RECURSIVE TrimLeft(_)
TrimLeft(text) ==
    IF text # <<>> /\ Head(text) = " " THEN TrimLeft(Tail(text)) ELSE text

\* C7: a formula text that, trimmed, does not begin with "=" (the empty text
\* included), applied to an existing sheet over a valid range, fails and
\* writes nothing to the anchor cell.
Cx_C7_EmptyFormula ==
    (ValidRangeCall /\ ~StartsWithEq(TrimLeft(call.formula))) =>
        /\ IsError
        /\ stored = pre

----------------------------------------------------------------------------
(* C8 *)

\* C8: after a successful call the anchor cell of the stored workbook holds
\* a text that begins with "=" and is the supplied formula once the _xlfn.
\* and _xlfn._xlws. prefixes are removed, and is marked as an array formula
\* over exactly "<START>:<END>".
Cx_C8_Anchor ==
    (IsApply /\ Succeeded) =>
        LET c == StoredCell(stored, call.sheet, AnchorKey(call))
        IN  /\ StartsWithEq(c.text)
            /\ StripPrefixes(c.text) = call.formula
            /\ c.t = "array"
            /\ c.ref = call.start \o <<":">> \o call.end

----------------------------------------------------------------------------
(* C9 *)

\* C9: after a successful call over more than one cell, every cell of the
\* rectangle but the anchor is marked as a spill member of the anchor, and
\* none of them carries formula text.
Cx_C9_SpillMembers ==
    (IsApply /\ Succeeded /\ call.start # call.end /\ StartsWithEq(call.formula)) =>
        \A k \in RangeCells(call.start, call.end) \ {AnchorKey(call)} :
            LET c == StoredCell(stored, call.sheet, k)
            IN  /\ c.t = "spill"
                /\ c.ref = call.start
                /\ ~StartsWithEq(c.text)

----------------------------------------------------------------------------
(* C10 *)

Applies == {i \in 1..Len(hist) : hist[i].op = "apply"}
Writes == {i \in 1..Len(hist) : hist[i].op = "write"}

WrittenCells(c) == DataCells(RefRow(c.start), RefCol(c.start), c.data)

WrittenValue(c, k) ==
    <<c.data[k[1] - RefRow(c.start) + 1][k[2] - RefCol(c.start) + 1]>>

\* the spill ranges are pairwise disjoint and no plain write targets a cell
\* of a spill range
RangesApart ==
    /\ \A i \in Applies, j \in Applies :
          (i # j /\ hist[i].sheet = hist[j].sheet) =>
              RangeCells(hist[i].start, hist[i].end)
                  \cap RangeCells(hist[j].start, hist[j].end) = {}
    /\ \A i \in Applies, j \in Writes :
          hist[i].sheet = hist[j].sheet =>
              RangeCells(hist[i].start, hist[i].end) \cap WrittenCells(hist[j]) = {}

\* every anchor applied so far holds its own formula and extent
AnchorsKept ==
    \A i \in Applies :
        LET c == StoredCell(stored, hist[i].sheet, AnchorKey(hist[i]))
        IN  /\ c.t = "array"
            /\ StripPrefixes(c.text) = hist[i].formula
            /\ c.ref = hist[i].start \o <<":">> \o hist[i].end

\* every cell written so far holds the value last written to it
DataKept ==
    \A j \in Writes : \A k \in WrittenCells(hist[j]) :
        (\A l \in Writes :
            (l > j /\ hist[l].sheet = hist[j].sheet) => k \notin WrittenCells(hist[l]))
        => StoredCell(stored, hist[j].sheet, k)
              = [t |-> "v", text |-> WrittenValue(hist[j], k), ref |-> <<>>]

\* the last call, a successful apply, changed its anchor cell and nothing else
OnlyAnchorChanged ==
    (IsApply /\ Succeeded) =>
        /\ DOMAIN stored.sheets = DOMAIN pre.sheets
        /\ \A n \in DOMAIN stored.sheets :
              /\ DOMAIN stored.sheets[n] =
                    DOMAIN pre.sheets[n]
                        \cup (IF n = call.sheet THEN {AnchorKey(call)} ELSE {})
              /\ \A k \in DOMAIN pre.sheets[n] :
                    (n # call.sheet \/ k # AnchorKey(call)) =>
                        stored.sheets[n][k] = pre.sheets[n][k]

\* C10: after any run of successful apply_spill_formula and
\* write_data_to_excel calls on one file whose spill ranges are pairwise
\* disjoint and whose plain writes target no range cell, every earlier anchor
\* still holds its formula and extent and every data cell the value written
\* to it; a later apply changes only its own anchor cell.
Thm_C10_EarlierCallsKept ==
    /\ RangesApart => (AnchorsKept /\ DataKept)
    /\ OnlyAnchorChanged

Wit_C10_EarlierCallsKept ==
    /\ Len(hist) >= 2
    /\ RangesApart
    /\ \E i \in Applies, j \in Applies :
          /\ i < j
          /\ hist[i].sheet = hist[j].sheet
          /\ hist[i].formula # hist[j].formula
          /\ hist[i].start # hist[i].end
    /\ writer \in PrefixForms \ {<<>>}
    /\ AnchorsKept /\ DataKept

====
